---- MODULE Spec2Model ----
(***************************************************************************)
(* A model of bank_api:                                                    *)
(*  - the retrying HTTP executor (client/base.py, _request);               *)
(*  - the upsert cache behind it (persistence/repositories.py, run inside  *)
(*    DatabaseSessionManager.session_scope by the services), the refresh   *)
(*    services and the read routes of the API;                             *)
(*  - the audit log of the scheduler (jobs/scheduler.py);                  *)
(*  - refresh_transactions run by the scheduler's thread and by a request  *)
(*    at once, each in its own session_scope (persistence/database.py);    *)
(*  - the decoding of an amount (models/common.py).                        *)
(*                                                                         *)
(* Durations are in milliseconds (0.5 s is 500).                           *)
(***************************************************************************)
EXTENDS Integers, Sequences, FiniteSets, TLC

VARIABLES
    \* ---- one call of BaseComdirectClient._request ----
    cfg,              \* the client's RetryConfig
    params,           \* the caller's params argument
    rpc,              \* position of the call in _request
    attempt,          \* local variable attempt
    prepared_params,  \* local variable prepared_params
    last_response,    \* local variable last_response
    calls,            \* params of every session.request issued, in order
    received,         \* status and Retry-After of every response received, in order
    sleeps,           \* argument of every time.sleep call, in order
    outcome,          \* what _request returned or raised
    \* ---- the persisted cache ----
    txRows,           \* committed rows of table transactions, by insertion
    posRows,          \* committed rows of table positions, by insertion
    clock,            \* datetime.utcnow, as a logical clock
    lastCall,         \* the last service call: its scope and how it ended
    lastTx,           \* per external_id, the last record a committed call carried
    lastPos,          \* per account id, the last balance a committed call carried
    \* ---- the bank ----
    upstreamTx,       \* what the bank answers to get_account_transactions
    upstreamPos,      \* what the bank answers to get_account_balances
    \* ---- DataRefreshScheduler ----
    syncLogs,         \* committed rows of table sync_logs, by insertion
    jobPc,            \* per job, the position of its run in _run_with_logging
    jobLogId,         \* per job, local variable log_id
    jobExc,           \* per job, the exception the job function raised, if any
    jobOutcome,       \* per job, how its last run of _run_with_logging ended
    jobRuns,          \* per job, the number of runs started
    \* ---- decoding one amount payload ----
    payload,          \* the JSON object given to AmountValue.model_validate
    decoded,          \* the AmountValue it returned
    dumped,           \* model_dump(mode="json") of that AmountValue
    \* ---- refresh_transactions on the job thread and on a request thread ----
    thPc,             \* per thread, the position of its call in session_scope
    thArgs,           \* per thread, account_id and the values the bank returned
    thIdx,            \* per thread, the number of loop iterations done
    thSession,        \* per thread, the objects of its session
    thScope,          \* per thread, what session_scope has called on its session
    thRuns            \* per thread, the number of calls started

reqVars == <<cfg, params, rpc, attempt, prepared_params, last_response,
             calls, received, sleeps, outcome>>
dbVars == <<txRows, posRows, clock, lastCall, lastTx, lastPos>>
bankVars == <<upstreamTx, upstreamPos>>
jobVars == <<syncLogs, jobPc, jobLogId, jobExc, jobOutcome, jobRuns>>
amountVars == <<payload, decoded, dumped>>
threadVars == <<thPc, thArgs, thIdx, thSession, thScope, thRuns>>
restVars == <<bankVars, jobVars, amountVars, threadVars>>
vars == <<reqVars, dbVars, restVars>>

(***************************************************************************)
(* Python values                                                           *)
(***************************************************************************)
None == [tag |-> "None"]
Str(s) == [tag |-> "str", s |-> s]

Pow2(n) == IF n <= 0 THEN 1 ELSE
           LET F[k \in 0..n] == IF k = 0 THEN 1 ELSE 2 * F[k - 1] IN F[n]

(***************************************************************************)
(* RetryConfig (client/base.py:22-28)                                      *)
(***************************************************************************)
MaxAttemptsBound == 3

DefaultStatusForcelist == {429, 500, 502, 503, 504}

RetryConfig == [max_attempts : 0..MaxAttemptsBound,
                backoff_factor : {500, 1000},
                status_forcelist : {DefaultStatusForcelist, {404, 500}}]

(***************************************************************************)
(* float(retry_after): a header value is a sequence of characters.         *)
(* The result is a number (in ms), inf, nan, or ValueError ("err").        *)
(* Read here: an optional sign, then inf, nan, or digits with at most one  *)
(* point and at most three digits after it.                                *)
(***************************************************************************)
Digits == {"0", "1", "2", "3", "4", "5", "6", "7", "8", "9"}
DigitVal(c) == CASE c = "0" -> 0 [] c = "1" -> 1 [] c = "2" -> 2 [] c = "3" -> 3
                 [] c = "4" -> 4 [] c = "5" -> 5 [] c = "6" -> 6 [] c = "7" -> 7
                 [] c = "8" -> 8 [] c = "9" -> 9

Num(ms) == [kind |-> "num", ms |-> ms]
Inf == [kind |-> "inf", ms |-> 0]
NaN == [kind |-> "nan", ms |-> 0]
FloatError == [kind |-> "err", ms |-> 0]

AllDigits(s) == \A i \in 1..Len(s) : s[i] \in Digits

\* the digits of s read as a decimal integer
IntOf(s) == LET F[n \in 0..Len(s)] ==
                  IF n = 0 THEN 0 ELSE 10 * F[n - 1] + DigitVal(s[n])
            IN F[Len(s)]

\* the digits of s read as a decimal fraction, in thousandths
FracOf(s) == LET d(i) == IF i <= Len(s) THEN DigitVal(s[i]) ELSE 0
             IN 100 * d(1) + 10 * d(2) + d(3)

DotAt(s) == {i \in 1..Len(s) : s[i] = "."}

\* an unsigned decimal literal: digits, optionally one point; at least one digit
Unsigned(s) ==
    IF DotAt(s) = {} THEN
        IF Len(s) > 0 /\ AllDigits(s) THEN Num(1000 * IntOf(s)) ELSE FloatError
    ELSE LET p == CHOOSE i \in DotAt(s) : TRUE
             ip == SubSeq(s, 1, p - 1)
             fp == SubSeq(s, p + 1, Len(s))
         IN IF Cardinality(DotAt(s)) = 1 /\ AllDigits(ip) /\ AllDigits(fp)
               /\ Len(ip) + Len(fp) > 0 /\ Len(fp) <= 3
            THEN Num(1000 * IntOf(ip) + FracOf(fp)) ELSE FloatError

ParseFloat(s) ==
    LET signed == Len(s) > 0 /\ s[1] \in {"+", "-"}
        body == IF signed THEN Tail(s) ELSE s
        neg == signed /\ s[1] = "-"
        u == IF body = <<"i", "n", "f">> THEN Inf
             ELSE IF body = <<"n", "a", "n">> THEN NaN
             ELSE Unsigned(body)
    IN IF u.kind = "num" /\ neg THEN Num(0 - u.ms) ELSE u

(***************************************************************************)
(* Responses of the server                                                 *)
(***************************************************************************)
StatusCodes == {200, 399, 404, 429, 500}

RetryAfterValues == {<<"1">>, <<"2", ".", "5">>, <<"-", "1">>, <<"n", "a", "n">>,
                     <<"i", "n", "f">>, <<"s", "o", "o", "n">>}

\* headers.get("Retry-After"): None when the header is absent
HeaderChoices == {None} \cup {[tag |-> "str", s |-> v] : v \in RetryAfterValues}

\* a body is its text and whether that text parses as JSON
Bodies == {[text |-> "{\"error\": \"fail\"}", is_json |-> TRUE],
           [text |-> "Bad Gateway", is_json |-> FALSE]}

\* every Retry-After value on a 429; on the other statuses, where the code
\* does not read the header, only its absence and one numeric value
Responses == {r \in [status_code : StatusCodes, retry_after : HeaderChoices, body : Bodies] :
                 r.status_code = 429 \/ r.retry_after \in {None, Str(<<"1">>)}}

NoResponse == [tag |-> "None"]

\* Response.ok, as the repository defines it (tests/test_clients.py, FakeResponse.ok)
Ok(response) == 200 <= response.status_code /\ response.status_code < 400

\* BaseComdirectClient._should_retry
ShouldRetry(response) == response.status_code \in cfg.status_forcelist

\* a backoff whose exponent is the attempt number, not the attempt number minus one
BackoffFromAttempt(k) == Num(cfg.backoff_factor * Pow2(k))

\* the exponential fallback of _calculate_delay
Backoff(k) == Num(cfg.backoff_factor * Pow2(k - 1))

\* a delay that never reads the Retry-After header
CalculateDelayIgnoringHeader(response, k) == Backoff(k)

\* BaseComdirectClient._calculate_delay
CalculateDelay(response, k) ==
    IF response.status_code = 429 /\ response.retry_after # None
       /\ ParseFloat(response.retry_after.s).kind # "err"
    THEN ParseFloat(response.retry_after.s)
    ELSE Backoff(k)

\* time.sleep(delay) raises for a negative, NaN or infinite delay
SleepError(delay) ==
    CASE delay.kind = "nan" -> "ValueError"
      [] delay.kind = "inf" -> "OverflowError"
      [] delay.kind = "num" /\ delay.ms < 0 -> "ValueError"
      [] OTHER -> "none"

\* BaseComdirectClient._build_error
BuildError(response) ==
    [kind |-> "ComdirectAPIError",
     status_code |-> response.status_code,
     response |-> IF response.body.is_json
                  THEN [json |-> response.body.text]
                  ELSE [text |-> response.body.text]]

(***************************************************************************)
(* Query parameters                                                        *)
(***************************************************************************)
ParamKeys == {"a", "b"}
ParamValues == {None, Str("x"), Str("")}

\* a mapping is a function from its keys to values
Mappings == UNION {[K -> ParamValues] : K \in SUBSET ParamKeys}
ParamsChoices == {[is_none |-> TRUE, map |-> <<>>]}
                 \cup {[is_none |-> FALSE, map |-> m] : m \in Mappings}

\* a filter on truthiness, which drops the empty string with None
PrepareParamsTruthy(p) ==
    IF p.is_none \/ DOMAIN p.map = {} THEN <<>>
    ELSE [k \in {x \in DOMAIN p.map : p.map[x] \notin {None, Str("")}} |-> p.map[k]]

\* BaseComdirectClient._prepare_params
PrepareParams(p) ==
    IF p.is_none \/ DOMAIN p.map = {} THEN <<>>
    ELSE [k \in {x \in DOMAIN p.map : p.map[x] # None} |-> p.map[k]]

(***************************************************************************)
(* _request, step by step                                                  *)
(***************************************************************************)
InitRequest ==
    /\ cfg \in RetryConfig
    /\ params \in ParamsChoices
    /\ rpc = "start"
    /\ attempt = 0
    /\ prepared_params = <<>>
    /\ last_response = NoResponse
    /\ calls = <<>>
    /\ received = <<>>
    /\ sleeps = <<>>
    /\ outcome = [kind |-> "running"]

\* lines 69-73
Prepare ==
    /\ rpc = "start"
    /\ prepared_params' = PrepareParams(params)
    /\ attempt' = 0
    /\ last_response' = NoResponse
    /\ rpc' = "loop"
    /\ UNCHANGED <<cfg, params, calls, received, sleeps, outcome, dbVars, restVars>>

\* where the loop goes after a response (line 87)
AfterResponse(response, k) ==
    IF ~ShouldRetry(response) \/ k = cfg.max_attempts THEN "evaluate" ELSE "delay"

\* lines 75-88: one pass of the loop, the server answering with response
SendRequest(response) ==
    /\ rpc = "loop"
    /\ attempt < cfg.max_attempts
    /\ attempt' = attempt + 1
    /\ calls' = Append(calls, prepared_params)
    /\ received' = Append(received, [status_code |-> response.status_code,
                                     retry_after |-> response.retry_after])
    /\ last_response' = response
    /\ rpc' = AfterResponse(response, attempt + 1)
    /\ UNCHANGED <<cfg, params, prepared_params, sleeps, outcome, dbVars, restVars>>

\* a loop that catches what session.request raises and goes on
AfterTransportErrorRetried(k) == IF k < cfg.max_attempts THEN "loop" ELSE "propagated"

\* where the call goes when session.request raises on attempt k: the loop
\* has no handler (lines 75-99), the exception leaves _request
AfterTransportError(k) == "propagated"

\* lines 75-84: session.request raises (connection error, timeout)
TransportError ==
    /\ rpc = "loop"
    /\ attempt < cfg.max_attempts
    /\ attempt' = attempt + 1
    /\ calls' = Append(calls, prepared_params)
    /\ rpc' = AfterTransportError(attempt + 1)
    /\ outcome' = [kind |-> "TransportError"]
    /\ UNCHANGED <<cfg, params, prepared_params, last_response, received, sleeps, dbVars, restVars>>

\* line 75: the loop condition is false
LoopExit ==
    /\ rpc = "loop"
    /\ ~(attempt < cfg.max_attempts)
    /\ rpc' = "evaluate"
    /\ UNCHANGED <<cfg, params, attempt, prepared_params, last_response, calls,
                   received, sleeps, outcome, dbVars, restVars>>

\* lines 90-99: the delay is computed and time.sleep is called with it
Sleep ==
    /\ rpc = "delay"
    /\ LET delay == CalculateDelay(last_response, attempt) IN
        /\ sleeps' = Append(sleeps, delay)
        /\ IF SleepError(delay) = "none"
           THEN rpc' = "loop" /\ UNCHANGED outcome
           ELSE rpc' = "propagated" /\ outcome' = [kind |-> SleepError(delay)]
    /\ UNCHANGED <<cfg, params, attempt, prepared_params, last_response, calls,
                   received, dbVars, restVars>>

\* what leaves the call when last_response is None at line 101: the
\* AssertionError of the assert, or, when Python runs with -O and drops the
\* assert, the AttributeError of last_response.ok at line 102
OnNoResponse == {"AssertionError", "AttributeError"}

\* lines 101-104
Evaluate ==
    /\ rpc = "evaluate"
    /\ IF last_response = NoResponse
       THEN rpc' = "propagated" /\ \E exc \in OnNoResponse : outcome' = [kind |-> exc]
       ELSE IF ~Ok(last_response)
            THEN rpc' = "raised" /\ outcome' = BuildError(last_response)
            ELSE rpc' = "returned" /\ outcome' = [kind |-> "return", response |-> last_response]
    /\ UNCHANGED <<cfg, params, attempt, prepared_params, last_response, calls,
                   received, sleeps, dbVars, restVars>>

(***************************************************************************)
(* Decoded records (models/common.py, models/banking.py)                   *)
(***************************************************************************)
Decimal(s) == [tag |-> "Decimal", s |-> s]
Date(iso) == [tag |-> "date", iso |-> iso]

\* bool(value) of an Optional[str]
Truthy(v) == v # None /\ v # Str("")

\* a or b
PyOr(a, b) == IF Truthy(a) THEN a ELSE b

AmountValue(value, unit) == [cls |-> "AmountValue", value |-> value, unit |-> unit]
DateString(date) == [cls |-> "DateString", date |-> date]

\* the fields of AccountTransaction the repository reads, and one free-text
\* field; the other fields are optional strings that only ride along in raw
AccountTransaction(reference, endToEndReference, bookingDate, amount, remittanceInfo) ==
    [cls |-> "AccountTransaction", reference |-> reference,
     endToEndReference |-> endToEndReference, bookingDate |-> bookingDate,
     amount |-> amount, remittanceInfo |-> remittanceInfo]

\* dataclasses.asdict on a nested dataclass field: a dict of its fields
AsDictAmount(a) == IF a = None THEN None ELSE [value |-> a.value, unit |-> a.unit]
AsDictDate(d) == IF d = None THEN None ELSE [date |-> d.date]

\* AccountTransaction.model_dump() in its default mode "python": asdict,
\* with Decimal and date values left as they are (_convert_for_mode)
ModelDumpTransaction(t) ==
    [reference |-> t.reference, endToEndReference |-> t.endToEndReference,
     bookingDate |-> AsDictDate(t.bookingDate), amount |-> AsDictAmount(t.amount),
     remittanceInfo |-> t.remittanceInfo]

\* json.dumps, the serializer of a JSON column, accepts the dumped
\* transaction: it raises TypeError on a Decimal or a date
JsonSerializableTransaction(raw) ==
    /\ raw.bookingDate = None \/ raw.bookingDate.date = None
    /\ raw.amount = None \/ raw.amount.value = None

\* float(Decimal): the double nearest to the decimal
ToFloat(d) == [tag |-> "float", nearest |-> d.s]

\* datetime.combine(date, datetime.min.time())
AtMidnight(d) == [tag |-> "datetime", iso |-> d.iso, time |-> "00:00:00"]

\* _parse_date, on what the decoder produces (None or a DateString)
ParseDate(date_value) ==
    IF date_value = None THEN None ELSE AtMidnight(date_value.date)

(***************************************************************************)
(* Table transactions (persistence/models.py:16-32) and                    *)
(* TransactionRepository.upsert_transactions inside session_scope          *)
(***************************************************************************)
MaxBatch == 2
MaxCalls == 3

AccountIds == {"acc-1", "acc-2"}

TxRecords ==
    {AccountTransaction(Str("R1"), None, None, None, Str("x")),
     AccountTransaction(Str("R1"), None, None, AmountValue(None, Str("EUR")), Str("y")),
     AccountTransaction(None, Str("E1"), None, None, Str("x")),
     AccountTransaction(Str("R2"), Str("E1"), None, AmountValue(None, Str("")), Str("x")),
     AccountTransaction(None, None, None, None, Str("x")),
     AccountTransaction(None, Str(""), None, None, Str("x")),
     AccountTransaction(Str("R1"), None, DateString(Date("2024-03-01")),
                        AmountValue(Decimal("123.45"), Str("EUR")), Str("x"))}

SeqsUpTo(S, n) == UNION {[1..k -> S] : k \in 0..n}

TxBatches == SeqsUpTo(TxRecords, MaxBatch)

\* line 26
ExternalId(t) == PyOr(t.reference, t.endToEndReference)

\* lines 32-36
AmountOf(t) == IF t.amount # None /\ t.amount.value # None
               THEN ToFloat(t.amount.value) ELSE None
CurrencyOf(t) == IF t.amount # None /\ Truthy(t.amount.unit) THEN t.amount.unit ELSE None

\* select(Transaction).where(Transaction.external_id == external_id): the
\* session does not autoflush (database.py:36), so the query sees the rows
\* of the database and none of the objects the session has only add()ed
FindTransaction(rows, external_id) ==
    {i \in 1..Len(rows) : rows[i].external_id = external_id}

\* lines 37-41 with a stale payload: every column but raw is overwritten
UpdateTransactionKeepRaw(row, t) ==
    [row EXCEPT !.amount = AmountOf(t), !.currency = CurrencyOf(t),
                !.booking_date = ParseDate(t.bookingDate)]

\* lines 37-41: the existing row is overwritten in place
UpdateTransaction(row, t) ==
    [row EXCEPT !.raw = ModelDumpTransaction(t), !.amount = AmountOf(t),
                !.currency = CurrencyOf(t), !.booking_date = ParseDate(t.bookingDate)]

\* lines 43-50: a new object; id and timestamps are set when it is flushed
NewTransaction(t, account_id) ==
    [id |-> 0, external_id |-> ExternalId(t), account_id |-> account_id,
     booking_date |-> ParseDate(t.bookingDate), amount |-> AmountOf(t),
     currency |-> CurrencyOf(t), raw |-> ModelDumpTransaction(t),
     created_at |-> 0, updated_at |-> 0]

\* upsert_transactions, lines 25-51: the session after the loop. objs are
\* the loaded rows (the same object every time a row is found), dirty the
\* indices of those written to, new the objects passed to session.add
UpsertTransactions(rows, transactions, account_id) ==
    LET F[n \in 0..Len(transactions)] ==
          IF n = 0 THEN [objs |-> rows, dirty |-> {}, new |-> <<>>]
          ELSE LET s == F[n - 1]
                   t == transactions[n]
                   external_id == ExternalId(t)
                   found == IF Truthy(external_id)
                            THEN FindTransaction(rows, external_id) ELSE {}
               IN IF found # {}
                  THEN LET i == CHOOSE j \in found : \A m \in found : j <= m
                       IN [s EXCEPT !.objs[i] = UpdateTransaction(s.objs[i], t),
                                    !.dirty = s.dirty \cup {i}]
                  ELSE [s EXCEPT !.new = Append(s.new, NewTransaction(t, account_id))]
    IN F[Len(transactions)]

\* no unique constraint at all
UniqueExternalIdsUnchecked(rows) == TRUE

\* UniqueConstraint("external_id") (models.py:20): NULLs never collide
UniqueExternalIds(rows) ==
    \A i, j \in 1..Len(rows) :
        (i # j /\ rows[i].external_id # None) => rows[i].external_id # rows[j].external_id

\* the rows of the table after the flush of a session: a row whose
\* attributes were given other values than it had is updated and gets a new
\* updated_at (onupdate), new rows get the next ids and the current time
FlushedTransactions(s, now) ==
    [i \in 1..(Len(s.objs) + Len(s.new)) |->
        IF i <= Len(s.objs)
        THEN IF i \in s.dirty /\ s.objs[i] # txRows[i]
             THEN [s.objs[i] EXCEPT !.updated_at = now] ELSE s.objs[i]
        ELSE [s.new[i - Len(s.objs)] EXCEPT !.id = i, !.created_at = now,
                                            !.updated_at = now]]

\* session.commit() (database.py:54) succeeds: every payload written is
\* JSON-serializable and the unique constraint holds
TransactionsFlushOk(s, now) ==
    /\ \A i \in s.dirty : JsonSerializableTransaction(s.objs[i].raw)
    /\ \A i \in 1..Len(s.new) : JsonSerializableTransaction(s.new[i].raw)
    /\ UniqueExternalIds(FlushedTransactions(s, now))

\* TransactionService.list_cached_transactions
ListCachedTransactions(account_id) ==
    LET F[n \in 0..Len(txRows)] ==
          IF n = 0 THEN <<>>
          ELSE IF txRows[n].account_id = account_id /\ txRows[n].raw # None
               THEN Append(F[n - 1], txRows[n].raw) ELSE F[n - 1]
    IN F[Len(txRows)]

\* a transaction's natural id: its reference, else its endToEndReference
NaturalId(t) == IF t.reference # None THEN t.reference ELSE t.endToEndReference

\* the natural ids the records of a batch carry, and for each the last
\* record carrying it
CarriedIds(batch) == {NaturalId(batch[i]) : i \in 1..Len(batch)} \ {None}
LastCarrying(batch, e) ==
    batch[CHOOSE i \in 1..Len(batch) :
            /\ NaturalId(batch[i]) = e
            /\ \A j \in 1..Len(batch) : NaturalId(batch[j]) = e => j <= i]

\* the table as the transaction of a failing flush has written it when the
\* failing statement raises: the UPDATEs of the dirty rows in order, then
\* the INSERTs of the new objects in order, up to the first that fails
InFlightTransactions(s, now) ==
    LET all == FlushedTransactions(s, now)
        badUpdates == {i \in s.dirty : ~JsonSerializableTransaction(s.objs[i].raw)}
        upTo(k) == FlushedTransactions([s EXCEPT !.new = SubSeq(s.new, 1, k)], now)
        badInserts == {k \in 1..Len(s.new) :
                          \/ ~JsonSerializableTransaction(s.new[k].raw)
                          \/ ~UniqueExternalIds(upTo(k))}
    IN IF badUpdates # {}
       THEN LET b == CHOOSE i \in badUpdates : \A m \in badUpdates : i <= m
            IN [i \in 1..Len(txRows) |-> IF i < b THEN all[i] ELSE txRows[i]]
       ELSE IF badInserts # {}
            THEN upTo((CHOOSE k \in badInserts : \A m \in badInserts : k <= m) - 1)
            ELSE all

\* the rows of a table that differ from, or were added to, those of before
WrittenRows(before, inflight) ==
    Cardinality({i \in 1..Len(inflight) : i > Len(before) \/ inflight[i] # before[i]})

\* a session_scope whose except branch does not undo what was written
SessionRollbackKeepingWritten(before, inflight) == inflight

\* session_scope, lines 55-57: session.rollback() undoes every statement of
\* the transaction, and the exception is raised again
SessionRollback(before, inflight) == before

\* what a service call or a route handler did and how it ended
Call(kind, scope, result, raised, upstream_calls, sessions, lost) ==
    [kind |-> kind, account_id |-> scope, result |-> result, raised |-> raised,
     upstream_calls |-> upstream_calls, sessions |-> sessions, lost |-> lost,
     refresh |-> FALSE, miss |-> FALSE, refreshed |-> FALSE, data |-> <<>>]

\* a service that calls the bank a second time when the first call raised
UpstreamFailedRetried(kind, scope, exc) == Call(kind, scope, "upstream_error", exc, 2, 0, 0)

\* a service whose upstream call raised: the exception leaves the service
\* before session_scope is entered
UpstreamFailed(kind, scope, exc) == Call(kind, scope, "upstream_error", exc, 1, 0, 0)

\* TransactionService.refresh_transactions: the upstream call raises, and
\* nothing else is done; or it returns values, which are upserted in one
\* session_scope. The result is the table, the call as lastCall records it,
\* and the last record carried per id.
RefreshTransactionsOutcome(account_id, upstream, now) ==
    IF upstream.error
    THEN [rows |-> txRows, last |-> lastTx,
          call |-> UpstreamFailed("refresh_transactions", account_id, upstream.exc)]
    ELSE LET s == UpsertTransactions(txRows, upstream.values, account_id) IN
         IF TransactionsFlushOk(s, now)
         THEN [rows |-> FlushedTransactions(s, now),
               last |-> [e \in DOMAIN lastTx \cup CarriedIds(upstream.values) |->
                            IF e \in CarriedIds(upstream.values)
                            THEN LastCarrying(upstream.values, e) ELSE lastTx[e]],
               call |-> Call("refresh_transactions", account_id, "committed",
                             "none", 1, 1, 0)]
         ELSE [rows |-> SessionRollback(txRows, InFlightTransactions(s, now)),
               last |-> lastTx,
               call |-> Call("refresh_transactions", account_id, "storage_error",
                             "SQLAlchemyError", 1, 1,
                             WrittenRows(txRows, InFlightTransactions(s, now)))]

RefreshTransactions(account_id, upstream) ==
    /\ clock < MaxCalls
    /\ clock' = clock + 1
    /\ LET o == RefreshTransactionsOutcome(account_id, upstream, clock + 1) IN
        /\ txRows' = o.rows
        /\ lastTx' = o.last
        /\ lastCall' = o.call
    /\ UNCHANGED <<posRows, lastPos, reqVars, restVars>>

(***************************************************************************)
(* Table positions (persistence/models.py:35-46) and                       *)
(* PositionRepository.upsert_balances inside session_scope                 *)
(***************************************************************************)
Account(accountId) == [cls |-> "Account", accountId |-> accountId]

\* the fields of AccountBalance and Account the repository reads
AccountBalance(account, accountId, balance, availableCashAmount) ==
    [cls |-> "AccountBalance", account |-> account, accountId |-> accountId,
     balance |-> balance, availableCashAmount |-> availableCashAmount]

BalanceRecords ==
    {AccountBalance(Account(Str("acc-1")), Str("acc-1"), None, None),
     AccountBalance(Account(Str("acc-1")), Str("acc-1"), AmountValue(None, Str("EUR")), None),
     AccountBalance(Account(Str("acc-2")), None, None, AmountValue(None, Str("USD"))),
     AccountBalance(None, Str("acc-2"), None, None),
     AccountBalance(None, None, None, None),
     AccountBalance(Account(None), Str("acc-1"), AmountValue(None, None),
                    AmountValue(None, Str("USD"))),
     AccountBalance(Account(Str("acc-1")), Str("acc-1"),
                    AmountValue(Decimal("100.50"), Str("EUR")), None)}

BalanceBatches == SeqsUpTo(BalanceRecords, MaxBatch)

AsDictAccount(a) == IF a = None THEN None ELSE [accountId |-> a.accountId]

\* AccountBalance.model_dump() in its default mode "python"
ModelDumpBalance(b) ==
    [account |-> AsDictAccount(b.account), accountId |-> b.accountId,
     balance |-> AsDictAmount(b.balance),
     availableCashAmount |-> AsDictAmount(b.availableCashAmount)]

\* json.dumps accepts the dumped balance: no Decimal in it
JsonSerializableBalance(raw) ==
    /\ raw.balance = None \/ raw.balance.value = None
    /\ raw.availableCashAmount = None \/ raw.availableCashAmount.value = None

\* line 66: a conditional expression binds weaker than "or", so the key is
\* (balance.accountId or balance.account.accountId) if balance.account else None
BalanceAccountId(b) ==
    IF b.account # None THEN PyOr(b.accountId, b.account.accountId) ELSE None

\* _extract_amount
ExtractAmount(b) ==
    IF b.balance # None /\ b.balance.value # None THEN ToFloat(b.balance.value)
    ELSE IF b.availableCashAmount # None /\ b.availableCashAmount.value # None
         THEN ToFloat(b.availableCashAmount.value)
         ELSE None

\* _extract_currency
ExtractCurrency(b) ==
    IF b.balance # None /\ Truthy(b.balance.unit) THEN b.balance.unit
    ELSE IF b.availableCashAmount # None /\ Truthy(b.availableCashAmount.unit)
         THEN b.availableCashAmount.unit
         ELSE None

\* select(Position).where(Position.account_id == account_id), without autoflush
FindPosition(rows, account_id) ==
    {i \in 1..Len(rows) : rows[i].account_id = account_id}

\* lines 73-76
UpdatePosition(row, b, now) ==
    [row EXCEPT !.balance_amount = ExtractAmount(b), !.currency = ExtractCurrency(b),
                !.raw = ModelDumpBalance(b), !.updated_at = now]

\* lines 78-83
NewPosition(b, account_id) ==
    [id |-> 0, account_id |-> account_id, balance_amount |-> ExtractAmount(b),
     currency |-> ExtractCurrency(b), raw |-> ModelDumpBalance(b), updated_at |-> 0]

\* upsert_balances, lines 65-84: the session after the loop
UpsertBalances(rows, balances, now) ==
    LET F[n \in 0..Len(balances)] ==
          IF n = 0 THEN [objs |-> rows, dirty |-> {}, new |-> <<>>]
          ELSE LET s == F[n - 1]
                   b == balances[n]
                   account_id == BalanceAccountId(b)
                   found == FindPosition(rows, account_id)
               IN IF ~Truthy(account_id) THEN s
                  ELSE IF found # {}
                  THEN LET i == CHOOSE j \in found : \A m \in found : j <= m
                       IN [s EXCEPT !.objs[i] = UpdatePosition(s.objs[i], b, now),
                                    !.dirty = s.dirty \cup {i}]
                  ELSE [s EXCEPT !.new = Append(s.new, NewPosition(b, account_id))]
    IN F[Len(balances)]

\* UniqueConstraint("account_id") (models.py:39)
UniqueAccountIds(rows) ==
    \A i, j \in 1..Len(rows) :
        (i # j /\ rows[i].account_id # None) => rows[i].account_id # rows[j].account_id

\* the rows of the table after the flush: new rows get the next ids and
\* the default updated_at
FlushedPositions(s, now) ==
    [i \in 1..(Len(s.objs) + Len(s.new)) |->
        IF i <= Len(s.objs) THEN s.objs[i]
        ELSE [s.new[i - Len(s.objs)] EXCEPT !.id = i, !.updated_at = now]]

\* session.commit() succeeds
PositionsFlushOk(s, now) ==
    /\ \A i \in s.dirty : JsonSerializableBalance(s.objs[i].raw)
    /\ \A i \in 1..Len(s.new) : JsonSerializableBalance(s.new[i].raw)
    /\ UniqueAccountIds(FlushedPositions(s, now))

\* the account a balance belongs to: its accountId, else that of its
\* nested account (api/routers/accounts.py, _to_summary)
SummaryAccountId(b) ==
    IF ~Truthy(b.accountId) /\ b.account # None THEN b.account.accountId ELSE b.accountId

UpsertedAccounts(batch) ==
    {SummaryAccountId(batch[i]) : i \in 1..Len(batch)} \ {None, Str("")}
LastBalanceOf(batch, a) ==
    batch[CHOOSE i \in 1..Len(batch) :
            /\ SummaryAccountId(batch[i]) = a
            /\ \A j \in 1..Len(batch) : SummaryAccountId(batch[j]) = a => j <= i]

\* the table as the transaction of a failing flush has written it when the
\* failing statement raises
InFlightPositions(s, now) ==
    LET all == FlushedPositions(s, now)
        badUpdates == {i \in s.dirty : ~JsonSerializableBalance(s.objs[i].raw)}
        upTo(k) == FlushedPositions([s EXCEPT !.new = SubSeq(s.new, 1, k)], now)
        badInserts == {k \in 1..Len(s.new) :
                          \/ ~JsonSerializableBalance(s.new[k].raw)
                          \/ ~UniqueAccountIds(upTo(k))}
    IN IF badUpdates # {}
       THEN LET b == CHOOSE i \in badUpdates : \A m \in badUpdates : i <= m
            IN [i \in 1..Len(posRows) |-> IF i < b THEN all[i] ELSE posRows[i]]
       ELSE IF badInserts # {}
            THEN upTo((CHOOSE k \in badInserts : \A m \in badInserts : k <= m) - 1)
            ELSE all

\* AccountService.refresh_account_balances: the upstream call raises, and
\* nothing else is done; or it returns values, which are upserted in one
\* session_scope
RefreshAccountBalancesOutcome(user_id, upstream, now) ==
    IF upstream.error
    THEN [rows |-> posRows, last |-> lastPos,
          call |-> UpstreamFailed("refresh_account_balances", user_id, upstream.exc)]
    ELSE LET s == UpsertBalances(posRows, upstream.values, now) IN
         IF PositionsFlushOk(s, now)
         THEN [rows |-> FlushedPositions(s, now),
               last |-> [a \in DOMAIN lastPos \cup UpsertedAccounts(upstream.values) |->
                            IF a \in UpsertedAccounts(upstream.values)
                            THEN LastBalanceOf(upstream.values, a) ELSE lastPos[a]],
               call |-> Call("refresh_account_balances", user_id, "committed",
                             "none", 1, 1, 0)]
         ELSE [rows |-> SessionRollback(posRows, InFlightPositions(s, now)),
               last |-> lastPos,
               call |-> Call("refresh_account_balances", user_id, "storage_error",
                             "SQLAlchemyError", 1, 1,
                             WrittenRows(posRows, InFlightPositions(s, now)))]

RefreshAccountBalances(user_id, upstream) ==
    /\ clock < MaxCalls
    /\ clock' = clock + 1
    /\ LET o == RefreshAccountBalancesOutcome(user_id, upstream, clock + 1) IN
        /\ posRows' = o.rows
        /\ lastPos' = o.last
        /\ lastCall' = o.call
    /\ UNCHANGED <<txRows, lastTx, reqVars, restVars>>

UserIds == {"user-1", "user-2"}

\* what leaves the client when the upstream call fails: ComdirectAPIError
\* from _request, or the decoder's ValueError on a malformed payload
UpstreamErrors == {"ComdirectAPIError", "ValueError"}

BalanceUpstream == {[error |-> TRUE, exc |-> e, values |-> <<>>] : e \in UpstreamErrors}
                   \cup {[error |-> FALSE, exc |-> "none", values |-> b] : b \in BalanceBatches}

TxUpstream == {[error |-> TRUE, exc |-> e, values |-> <<>>] : e \in UpstreamErrors}
              \cup {[error |-> FALSE, exc |-> "none", values |-> b] : b \in TxBatches}

(***************************************************************************)
(* The read routes (api/routers/transactions.py, api/routers/accounts.py)  *)
(***************************************************************************)
\* model_validate of a stored payload. A committed payload holds no
\* Decimal and no date, so value and date are None where they are present.
ValidateAmount(d) == IF d = None THEN None ELSE AmountValue(d.value, d.unit)
ValidateDate(d) == IF d = None THEN None ELSE DateString(d.date)
ValidateAccount(d) == IF d = None THEN None ELSE Account(d.accountId)

\* AccountTransaction.model_validate(raw), _coerce_transaction on a dict
ValidateTransaction(raw) ==
    AccountTransaction(raw.reference, raw.endToEndReference, ValidateDate(raw.bookingDate),
                       ValidateAmount(raw.amount), raw.remittanceInfo)

\* AccountBalance.model_validate(position.raw)
ValidateBalance(raw) ==
    AccountBalance(ValidateAccount(raw.account), raw.accountId, ValidateAmount(raw.balance),
                   ValidateAmount(raw.availableCashAmount))

\* _to_amount
ToAmount(t) ==
    IF t.amount # None /\ t.amount.value # None
    THEN [value |-> ToFloat(t.amount.value), currency |-> t.amount.unit]
    ELSE [value |-> None, currency |-> None]

\* _to_record, on the fields of the model
ToRecord(t) ==
    [reference |-> t.reference,
     booking_date |-> IF t.bookingDate = None THEN None ELSE t.bookingDate.date,
     remittance_info |-> t.remittanceInfo, amount |-> ToAmount(t)]

\* _map_transactions
MapTransactions(transactions) ==
    [i \in 1..Len(transactions) |-> ToRecord(transactions[i])]

\* _derive_amount
DeriveAmount(b) ==
    IF b.balance # None /\ b.balance.value # None
    THEN [amount |-> ToFloat(b.balance.value), currency |-> b.balance.unit]
    ELSE IF b.availableCashAmount # None /\ b.availableCashAmount.value # None
         THEN [amount |-> ToFloat(b.availableCashAmount.value),
               currency |-> b.availableCashAmount.unit]
         ELSE [amount |-> None, currency |-> None]

\* _to_summary
ToSummary(b) ==
    [account_id |-> SummaryAccountId(b), amount |-> DeriveAmount(b).amount,
     currency |-> DeriveAmount(b).currency]

\* AccountService.list_cached_balances: every row of the table, whatever the user
ListCachedBalances ==
    LET F[n \in 0..Len(posRows)] ==
          IF n = 0 THEN <<>>
          ELSE IF posRows[n].raw # None
               THEN Append(F[n - 1], ValidateBalance(posRows[n].raw)) ELSE F[n - 1]
    IN F[Len(posRows)]

\* how a route handler ends when it has called a refresh: the refresh's
\* exception leaves the handler, or the handler returns the upstream values
AfterRefresh(kind, call, refresh, miss, data) ==
    [call EXCEPT !.kind = kind, !.refresh = refresh, !.miss = miss,
                 !.sessions = IF refresh THEN @ ELSE @ + 1,
                 !.result = IF call.result = "committed" THEN "returned" ELSE @,
                 !.refreshed = (call.result = "committed"),
                 !.data = IF call.result = "committed" THEN data ELSE <<>>]

\* how a route handler ends when it answers from the cache
FromCache(kind, scope, data) ==
    [Call(kind, scope, "returned", "none", 0, 1, 0) EXCEPT !.data = data]

\* GET /accounts/{account_id}/transactions
ListTransactions(account_id, refresh, upstream) ==
    /\ clock < MaxCalls
    /\ clock' = clock + 1
    /\ LET transactions == ListCachedTransactions(account_id)
           miss == ~refresh /\ transactions = <<>>
           o == RefreshTransactionsOutcome(account_id, upstream, clock + 1)
       IN IF refresh \/ miss
          THEN /\ txRows' = o.rows
               /\ lastTx' = o.last
               /\ lastCall' = AfterRefresh("list_transactions", o.call, refresh, miss,
                                           MapTransactions(upstream.values))
          ELSE /\ UNCHANGED <<txRows, lastTx>>
               /\ lastCall' = FromCache("list_transactions", account_id,
                                  MapTransactions([i \in 1..Len(transactions) |->
                                                      ValidateTransaction(transactions[i])]))
    /\ UNCHANGED <<posRows, lastPos, reqVars, restVars>>

\* GET /accounts/{user_id}/balances
ListBalances(user_id, refresh, upstream) ==
    /\ clock < MaxCalls
    /\ clock' = clock + 1
    /\ LET balances == ListCachedBalances
           miss == ~refresh /\ balances = <<>>
           o == RefreshAccountBalancesOutcome(user_id, upstream, clock + 1)
       IN IF refresh \/ miss
          THEN /\ posRows' = o.rows
               /\ lastPos' = o.last
               /\ lastCall' = AfterRefresh("list_balances", o.call, refresh, miss,
                                  [i \in 1..Len(upstream.values) |->
                                      ToSummary(upstream.values[i])])
          ELSE /\ UNCHANGED <<posRows, lastPos>>
               /\ lastCall' = FromCache("list_balances", user_id,
                                  [i \in 1..Len(balances) |-> ToSummary(balances[i])])
    /\ UNCHANGED <<txRows, lastTx, reqVars, restVars>>

(***************************************************************************)
(* DataRefreshScheduler._run_with_logging (jobs/scheduler.py:98-119) and   *)
(* table sync_logs (persistence/models.py:49-60). The scheduler runs each  *)
(* job on a thread of its own, so runs of different jobs interleave.       *)
(***************************************************************************)
MaxRuns == 2

\* the job names the scheduler builds (lines 50, 80)
Jobs == {"account-balance-refresh-user-1", "transaction-refresh-acc-1"}

\* what a job function raises: an exception has a type and a text, str(exc)
Exceptions == {[type |-> "ComdirectAPIError", text |-> "API request failed with status 500"],
               [type |-> "ValueError", text |-> ""]}

\* datetime.utcnow(), a reading of the logical clock
UtcNow(now) == [tag |-> "datetime", at |-> now]

\* SyncLogRepository.create, flushed: the row gets the next id
SyncLogCreate(job_name, status, now) ==
    [id |-> Len(syncLogs) + 1, job_name |-> job_name, status |-> status, detail |-> None,
     started_at |-> UtcNow(now), finished_at |-> None]

\* SyncLogRepository.get
SyncLogGet(log_id) == {i \in 1..Len(syncLogs) : syncLogs[i].id = log_id}

\* an update that leaves finished_at as it is
SyncLogUpdateWithoutFinish(log, status, detail, now) ==
    [log EXCEPT !.status = status, !.detail = detail]

\* an update that drops the detail
SyncLogUpdateWithoutDetail(log, status, detail, now) ==
    [log EXCEPT !.status = status, !.detail = None, !.finished_at = UtcNow(now)]

\* SyncLogRepository.update
SyncLogUpdate(log, status, detail, now) ==
    [log EXCEPT !.status = status, !.detail = detail, !.finished_at = UtcNow(now)]

\* lines 108-112 and 115-119: a session_scope that loads the row and, when
\* it is there, updates it
StoreOutcome(log_id, status, detail, now) ==
    [i \in 1..Len(syncLogs) |->
        IF i \in SyncLogGet(log_id)
        THEN SyncLogUpdate(syncLogs[i], status, detail, now) ELSE syncLogs[i]]

InitJobs ==
    /\ syncLogs = <<>>
    /\ jobPc = [j \in Jobs |-> "idle"]
    /\ jobLogId = [j \in Jobs |-> 0]
    /\ jobExc = [j \in Jobs |-> None]
    /\ jobOutcome = [j \in Jobs |-> [kind |-> "none"]]
    /\ jobRuns = [j \in Jobs |-> 0]

\* lines 99-103: the first session_scope commits the row of the run
StartRun(j) ==
    /\ jobPc[j] = "idle"
    /\ jobRuns[j] < MaxRuns
    /\ jobRuns' = [jobRuns EXCEPT ![j] = @ + 1]
    /\ clock' = clock + 1
    /\ syncLogs' = Append(syncLogs, SyncLogCreate(j, "running", clock + 1))
    /\ jobLogId' = [jobLogId EXCEPT ![j] = Len(syncLogs) + 1]
    /\ jobExc' = [jobExc EXCEPT ![j] = None]
    /\ jobOutcome' = [jobOutcome EXCEPT ![j] = [kind |-> "running"]]
    /\ jobPc' = [jobPc EXCEPT ![j] = "func"]
    /\ UNCHANGED <<txRows, posRows, lastCall, lastTx, lastPos, reqVars, bankVars, amountVars, threadVars>>

\* line 106: the job function returns
FuncReturns(j) ==
    /\ jobPc[j] = "func"
    /\ jobPc' = [jobPc EXCEPT ![j] = "else"]
    /\ UNCHANGED <<syncLogs, jobLogId, jobExc, jobOutcome, jobRuns,
                   reqVars, dbVars, bankVars, amountVars, threadVars>>

\* lines 106-107: the job function raises exc
FuncRaises(j, exc) ==
    /\ jobPc[j] = "func"
    /\ jobExc' = [jobExc EXCEPT ![j] = exc]
    /\ jobPc' = [jobPc EXCEPT ![j] = "except"]
    /\ UNCHANGED <<syncLogs, jobLogId, jobOutcome, jobRuns,
                   reqVars, dbVars, bankVars, amountVars, threadVars>>

\* lines 108-113: the failure is stored and exc is raised again
RecordFailure(j) ==
    /\ jobPc[j] = "except"
    /\ clock' = clock + 1
    /\ syncLogs' = StoreOutcome(jobLogId[j], "failed", Str(jobExc[j].text), clock + 1)
    /\ jobOutcome' = [jobOutcome EXCEPT ![j] = [kind |-> "raised", exc |-> jobExc[j]]]
    /\ jobPc' = [jobPc EXCEPT ![j] = "idle"]
    /\ UNCHANGED <<jobLogId, jobExc, jobRuns>>
    /\ UNCHANGED <<txRows, posRows, lastCall, lastTx, lastPos, reqVars, bankVars, amountVars, threadVars>>

\* lines 114-119: the success is stored and the run returns
RecordSuccess(j) ==
    /\ jobPc[j] = "else"
    /\ clock' = clock + 1
    /\ syncLogs' = StoreOutcome(jobLogId[j], "succeeded", None, clock + 1)
    /\ jobOutcome' = [jobOutcome EXCEPT ![j] = [kind |-> "returned"]]
    /\ jobPc' = [jobPc EXCEPT ![j] = "idle"]
    /\ UNCHANGED <<jobLogId, jobExc, jobRuns>>
    /\ UNCHANGED <<txRows, posRows, lastCall, lastTx, lastPos, reqVars, bankVars, amountVars, threadVars>>

(***************************************************************************)
(* AmountValue.model_validate and model_dump(mode="json")                  *)
(* (models/common.py:197-245). A value string is a sequence of characters. *)
(* Decimal(str) is read here for an optional sign, digits with at most one *)
(* point, and an optional exponent E with its own sign; a Decimal is its   *)
(* sign, its coefficient as digits, and its exponent.                      *)
(***************************************************************************)
MaxValueLen == 3

ValueAlphabet == {"0", "1", "5", ".", "+", "-", "E"}

\* the value strings of the model: every short string over the alphabet,
\* numeric or not, and some longer amounts
ValueStrings ==
    SeqsUpTo(ValueAlphabet, MaxValueLen)
    \cup {<<"1", "2", "3", ".", "4", "5">>, <<"0", ".", "1", "0">>, <<"-", "1", "2", ".", "5", "0">>,
          <<"0", ".", "0", "0", "0", "0", "0", "0", "1">>, <<"1", "E", "-", "7">>}

Units == {None, Str("EUR"), Str("")}

Payloads == [value : {None} \cup {[tag |-> "str", s |-> v] : v \in ValueStrings}, unit : Units]

InvalidOperation == [tag |-> "InvalidOperation"]

Zeros(n) == [i \in 1..n |-> "0"]

\* str(int(digits)): the digits without leading zeros
StripLeadingZeros(d) ==
    LET nonzero == {i \in 1..Len(d) : d[i] # "0"}
    IN IF nonzero = {} THEN <<"0">>
       ELSE SubSeq(d, CHOOSE i \in nonzero : \A m \in nonzero : i <= m, Len(d))

\* a natural number in decimal digits, "%d"
NatStr(n) ==
    LET digit(k) == CHOOSE c \in Digits : DigitVal(c) = k
        F[m \in 0..n] == IF m < 10 THEN <<digit(m)>> ELSE Append(F[m \div 10], digit(m % 10))
    IN F[n]

\* "%+d"
SignedStr(n) == IF n < 0 THEN <<"-">> \o NatStr(0 - n) ELSE <<"+">> \o NatStr(n)

\* an exponent that forgets the digits after the point
ExponentIgnoringFraction(e, frac) == e

\* the exponent of the Decimal: the written exponent less the number of
\* digits after the point
Exponent(e, frac) == e - Len(frac)

\* Decimal(s) of a string
ParseDecimal(s) ==
    LET signed == Len(s) > 0 /\ s[1] \in {"+", "-"}
        body == IF signed THEN Tail(s) ELSE s
        es == {i \in 1..Len(body) : body[i] = "E"}
        mant == IF es = {} THEN body
                ELSE SubSeq(body, 1, (CHOOSE i \in es : \A m \in es : i <= m) - 1)
        ex == IF es = {} THEN <<>> ELSE SubSeq(body, Len(mant) + 2, Len(body))
        exSigned == Len(ex) > 0 /\ ex[1] \in {"+", "-"}
        exDigits == IF exSigned THEN Tail(ex) ELSE ex
        exOk == es = {} \/ (Len(exDigits) > 0 /\ AllDigits(exDigits))
        e == IF es = {} \/ ~exOk THEN 0
             ELSE IF exSigned /\ ex[1] = "-" THEN 0 - IntOf(exDigits) ELSE IntOf(exDigits)
        dots == DotAt(mant)
        ip == IF dots = {} THEN mant ELSE SubSeq(mant, 1, (CHOOSE i \in dots : TRUE) - 1)
        fp == IF dots = {} THEN <<>> ELSE SubSeq(mant, Len(ip) + 2, Len(mant))
        mantOk == /\ Cardinality(dots) <= 1
                  /\ AllDigits(ip) /\ AllDigits(fp)
                  /\ Len(ip) + Len(fp) > 0
    IN IF mantOk /\ exOk
       THEN [tag |-> "Decimal", sign |-> IF signed /\ s[1] = "-" THEN <<"-">> ELSE <<>>,
             coeff |-> StripLeadingZeros(ip \o fp), exp |-> Exponent(e, fp)]
       ELSE InvalidOperation

\* str(Decimal)
DecimalStr(d) ==
    LET leftdigits == d.exp + Len(d.coeff)
        dotplace == IF d.exp <= 0 /\ leftdigits > 0 - 6 THEN leftdigits ELSE 1
        intpart == IF dotplace <= 0 THEN <<"0">>
                   ELSE IF dotplace >= Len(d.coeff)
                        THEN d.coeff \o Zeros(dotplace - Len(d.coeff))
                        ELSE SubSeq(d.coeff, 1, dotplace)
        fracpart == IF dotplace <= 0 THEN <<".">> \o Zeros(0 - dotplace) \o d.coeff
                    ELSE IF dotplace >= Len(d.coeff) THEN <<>>
                         ELSE <<".">> \o SubSeq(d.coeff, dotplace + 1, Len(d.coeff))
        exp == IF leftdigits = dotplace THEN <<>>
               ELSE <<"E">> \o SignedStr(leftdigits - dotplace)
    IN d.sign \o intpart \o fracpart \o exp

\* _coerce_decimal
CoerceDecimal(value) == IF value = None THEN None ELSE ParseDecimal(value.s)

\* _coerce_optional_str, of None or a string
CoerceOptionalStr(value) == value

\* _convert_for_mode(value, "json") of None, a string or a Decimal
ConvertForJson(value) ==
    IF value # None /\ value.tag = "Decimal"
    THEN [tag |-> "str", s |-> DecimalStr(value)] ELSE value

NotYet == [tag |-> "not yet"]

InitAmountIdle ==
    /\ payload = [value |-> None, unit |-> None]
    /\ decoded = NotYet
    /\ dumped = NotYet

InitAmount ==
    /\ payload \in Payloads
    /\ decoded = NotYet
    /\ dumped = NotYet

\* AmountValue.model_validate(payload), lines 236-245: Decimal's
\* InvalidOperation leaves the call when the value is not numeric
ModelValidate ==
    /\ decoded = NotYet
    /\ decoded' = IF CoerceDecimal(payload.value) = InvalidOperation
                  THEN InvalidOperation
                  ELSE AmountValue(CoerceDecimal(payload.value),
                                   CoerceOptionalStr(payload.unit))
    /\ UNCHANGED <<payload, dumped, reqVars, dbVars, bankVars, jobVars, threadVars>>

\* model_dump(mode="json") of the decoded AmountValue
ModelDumpJson ==
    /\ decoded \notin {NotYet, InvalidOperation}
    /\ dumped = NotYet
    /\ dumped' = [value |-> ConvertForJson(decoded.value), unit |-> ConvertForJson(decoded.unit)]
    /\ UNCHANGED <<payload, decoded, reqVars, dbVars, bankVars, jobVars, threadVars>>

(***************************************************************************)
(* refresh_transactions on two threads. The scheduler runs its job on a    *)
(* thread of its own (BackgroundScheduler, jobs/scheduler.py:24) while a   *)
(* request is served on another; each call has its own session, and with   *)
(* it its own connection and transaction (database.py:47-59). The session  *)
(* does not autoflush, so the loop of upsert_transactions only reads, each *)
(* SELECT seeing what is committed when it runs, and every write is made   *)
(* by the flush inside session.commit(), which the database runs as one    *)
(* write transaction.                                                      *)
(***************************************************************************)
Threads == {"job", "request"}

MaxThreadCalls == 2

\* the records the two threads receive
ThreadRecords ==
    {AccountTransaction(Str("R1"), None, None, None, Str("x")),
     AccountTransaction(Str("R1"), None, None, AmountValue(None, Str("EUR")), Str("y")),
     AccountTransaction(None, Str("E1"), None, None, Str("x")),
     AccountTransaction(Str("R1"), None, DateString(Date("2024-03-01")),
                        AmountValue(Decimal("123.45"), Str("EUR")), Str("x"))}

ThreadBatches == SeqsUpTo(ThreadRecords, MaxBatch)

\* the attributes upsert_transactions assigns on a row it found (lines 38-41)
AssignedColumns == {"raw", "amount", "currency", "booking_date"}

\* a new session: orig holds each loaded row as it was loaded, objs the
\* same rows with what the loop assigned, new the objects given to add()
NoSession == [orig |-> <<>>, objs |-> <<>>, new |-> <<>>]

\* what session_scope has done: how its body ended, the calls of
\* session.commit, session.rollback and session.close, whether the commit
\* succeeded, and the exception that leaves the scope
NoScope == [body |-> "none", commits |-> 0, committed |-> FALSE, rollbacks |-> 0,
            closes |-> 0, raised |-> "none"]

InitThreads ==
    /\ thPc = [th \in Threads |-> "idle"]
    /\ thArgs = [th \in Threads |-> [account_id |-> "acc-1", transactions |-> <<>>]]
    /\ thIdx = [th \in Threads |-> 0]
    /\ thSession = [th \in Threads |-> NoSession]
    /\ thScope = [th \in Threads |-> NoScope]
    /\ thRuns = [th \in Threads |-> 0]

ThreadEnded(th) == thPc[th] \in {"returned", "raised"}

\* refresh_transactions, lines 37-45, and session_scope, line 51: the client
\* has returned transactions, and the session of the call is created
ScopeEnter(th, account_id, transactions) ==
    /\ thPc[th] = "idle" \/ ThreadEnded(th)
    /\ thRuns["job"] + thRuns["request"] < MaxThreadCalls
    /\ thRuns' = [thRuns EXCEPT ![th] = @ + 1]
    /\ thArgs' = [thArgs EXCEPT ![th] = [account_id |-> account_id,
                                          transactions |-> transactions]]
    /\ thIdx' = [thIdx EXCEPT ![th] = 0]
    /\ thSession' = [thSession EXCEPT ![th] = NoSession]
    /\ thScope' = [thScope EXCEPT ![th] = [NoScope EXCEPT !.body = "running"]]
    /\ thPc' = [thPc EXCEPT ![th] = IF transactions = <<>> THEN "commit" ELSE "body"]
    /\ UNCHANGED <<reqVars, dbVars, bankVars, jobVars, amountVars>>

\* the session after one iteration of the loop of upsert_transactions,
\* lines 26-51: a row the SELECT finds is loaded once per session, and the
\* session keeps the object it has for it
UpsertOne(s, rows, t, account_id) ==
    LET external_id == ExternalId(t)
        found == IF Truthy(external_id) THEN FindTransaction(rows, external_id) ELSE {}
    IN IF found # {}
       THEN LET i == CHOOSE j \in found : \A m \in found : j <= m
                loaded == IF i \in DOMAIN s.objs THEN s
                          ELSE [s EXCEPT !.orig = (i :> rows[i]) @@ s.orig,
                                         !.objs = (i :> rows[i]) @@ s.objs]
            IN [loaded EXCEPT !.objs[i] = UpdateTransaction(loaded.objs[i], t)]
       ELSE [s EXCEPT !.new = Append(s.new, NewTransaction(t, account_id))]

\* one iteration of the loop; after the last one the body of the with
\* statement has finished (services/transactions.py:46-48)
ScopeBody(th) ==
    /\ thPc[th] = "body"
    /\ LET n == thIdx[th] + 1 IN
        /\ thIdx' = [thIdx EXCEPT ![th] = n]
        /\ thSession' = [thSession EXCEPT ![th] =
                            UpsertOne(@, txRows, thArgs[th].transactions[n],
                                      thArgs[th].account_id)]
        /\ thPc' = [thPc EXCEPT ![th] =
                       IF n = Len(thArgs[th].transactions) THEN "commit" ELSE "body"]
    /\ UNCHANGED <<thArgs, thScope, thRuns, reqVars, dbVars, bankVars, jobVars, amountVars>>

\* the SELECT of an iteration raises: the exception leaves the body
ScopeBodyRaises(th) ==
    /\ thPc[th] = "body"
    /\ thScope' = [thScope EXCEPT ![th].body = "raised", ![th].raised = "OperationalError"]
    /\ thPc' = [thPc EXCEPT ![th] = "except"]
    /\ UNCHANGED <<thArgs, thIdx, thSession, thRuns, reqVars, dbVars, bankVars, jobVars, amountVars>>

\* an UPDATE that also sets created_at
WriteBackWithCreated(row, orig, obj, now) ==
    [f \in DOMAIN row |-> IF f \in AssignedColumns THEN obj[f]
                          ELSE IF f \in {"created_at", "updated_at"} THEN now ELSE row[f]]

\* the UPDATE of a loaded row: the unit of work writes the attributes whose
\* value is not the one that was loaded, and with them updated_at
\* (onupdate); it writes nothing when no attribute has another value
WriteBack(row, orig, obj, now) ==
    LET changed == {f \in AssignedColumns : obj[f] # orig[f]}
    IN IF changed = {} THEN row
       ELSE [f \in DOMAIN row |-> IF f \in changed THEN obj[f]
                                  ELSE IF f = "updated_at" THEN now ELSE row[f]]

\* the table after the flush of a thread's session
ThreadFlushed(s, now) ==
    [i \in 1..(Len(txRows) + Len(s.new)) |->
        IF i <= Len(txRows)
        THEN IF i \in DOMAIN s.objs
             THEN WriteBack(txRows[i], s.orig[i], s.objs[i], now) ELSE txRows[i]
        ELSE [s.new[i - Len(txRows)] EXCEPT !.id = i, !.created_at = now,
                                            !.updated_at = now]]

\* the flush succeeds: every payload it writes is JSON-serializable and the
\* unique constraint holds on what it leaves
ThreadFlushOk(s, now) ==
    /\ \A i \in DOMAIN s.objs :
          s.objs[i].raw # s.orig[i].raw => JsonSerializableTransaction(s.objs[i].raw)
    /\ \A k \in 1..Len(s.new) : JsonSerializableTransaction(s.new[k].raw)
    /\ UniqueExternalIds(ThreadFlushed(s, now))

\* session_scope, line 54: session.commit() flushes and commits, or raises
ScopeCommit(th) ==
    /\ thPc[th] = "commit"
    /\ clock' = clock + 1
    /\ IF ThreadFlushOk(thSession[th], clock + 1)
       THEN /\ txRows' = ThreadFlushed(thSession[th], clock + 1)
            /\ lastTx' = [e \in DOMAIN lastTx \cup CarriedIds(thArgs[th].transactions) |->
                             IF e \in CarriedIds(thArgs[th].transactions)
                             THEN LastCarrying(thArgs[th].transactions, e) ELSE lastTx[e]]
            /\ thScope' = [thScope EXCEPT ![th].body = "finished", ![th].commits = @ + 1,
                                          ![th].committed = TRUE]
            /\ thPc' = [thPc EXCEPT ![th] = "finally"]
       ELSE /\ UNCHANGED <<txRows, lastTx>>
            /\ thScope' = [thScope EXCEPT ![th].body = "finished", ![th].commits = @ + 1,
                                          ![th].raised = "SQLAlchemyError"]
            /\ thPc' = [thPc EXCEPT ![th] = "except"]
    /\ UNCHANGED <<thArgs, thIdx, thSession, thRuns, posRows, lastCall, lastPos,
                   reqVars, bankVars, jobVars, amountVars>>

\* an except branch that raises again without session.rollback()
ExceptWithoutRollback(scope) == scope

\* what the except branch calls on the session, lines 55-56
Except(scope) == [scope EXCEPT !.rollbacks = @ + 1]

\* session_scope, lines 55-57: session.rollback(), and the exception is
\* raised again
ScopeExcept(th) ==
    /\ thPc[th] = "except"
    /\ thScope' = [thScope EXCEPT ![th] = Except(@)]
    /\ thPc' = [thPc EXCEPT ![th] = "finally"]
    /\ UNCHANGED <<thArgs, thIdx, thSession, thRuns, reqVars, dbVars, bankVars, jobVars, amountVars>>

\* session_scope, lines 58-59: session.close() lets go of the objects of the
\* session; then the call returns the response, or the exception leaves it
ScopeFinally(th) ==
    /\ thPc[th] = "finally"
    /\ thScope' = [thScope EXCEPT ![th].closes = @ + 1]
    /\ thSession' = [thSession EXCEPT ![th] = NoSession]
    /\ thPc' = [thPc EXCEPT ![th] = IF thScope[th].raised = "none" THEN "returned" ELSE "raised"]
    /\ UNCHANGED <<thArgs, thIdx, thRuns, reqVars, dbVars, bankVars, jobVars, amountVars>>

(***************************************************************************)
(* Specifications: each runs one part of the program and leaves the        *)
(* others as they are after construction                                   *)
(***************************************************************************)
InitRequestIdle ==
    /\ cfg = [max_attempts |-> 3, backoff_factor |-> 500,
              status_forcelist |-> DefaultStatusForcelist]
    /\ params = [is_none |-> TRUE, map |-> <<>>]
    /\ rpc = "start"
    /\ attempt = 0
    /\ prepared_params = <<>>
    /\ last_response = NoResponse
    /\ calls = <<>>
    /\ received = <<>>
    /\ sleeps = <<>>
    /\ outcome = [kind |-> "running"]

InitStoreIdle ==
    /\ txRows = <<>>
    /\ posRows = <<>>
    /\ clock = 0
    /\ lastCall = Call("none", "", "none", "none", 0, 0, 0)
    /\ lastTx = <<>>
    /\ lastPos = <<>>

InitBankIdle ==
    /\ upstreamTx = [error |-> FALSE, exc |-> "none", values |-> <<>>]
    /\ upstreamPos = [error |-> FALSE, exc |-> "none", values |-> <<>>]

InitReq == InitRequest /\ InitStoreIdle /\ InitBankIdle /\ InitJobs /\ InitAmountIdle /\ InitThreads

NextReq ==
    \/ Prepare
    \/ \E response \in Responses : SendRequest(response)
    \/ TransportError
    \/ LoopExit
    \/ Sleep
    \/ Evaluate

SpecRequest == InitReq /\ [][NextReq]_vars

InitStore == InitRequestIdle /\ InitStoreIdle /\ InitBankIdle /\ InitJobs /\ InitAmountIdle /\ InitThreads

NextTx ==
    \E account_id \in AccountIds, upstream \in TxUpstream :
        RefreshTransactions(account_id, upstream)

SpecTransactions == InitStore /\ [][NextTx]_vars

NextPos ==
    \E user_id \in UserIds, upstream \in BalanceUpstream :
        RefreshAccountBalances(user_id, upstream)

SpecPositions == InitStore /\ [][NextPos]_vars

\* the read routes, each with or without refresh=true, the bank answering
\* with an error or with at most MaxReadBatch records
MaxReadBatch == 1

NextReads ==
    \/ \E account_id \in AccountIds, refresh \in BOOLEAN,
          upstream \in {u \in TxUpstream : Len(u.values) <= MaxReadBatch} :
          ListTransactions(account_id, refresh, upstream)
    \/ \E user_id \in UserIds, refresh \in BOOLEAN,
          upstream \in {u \in BalanceUpstream : Len(u.values) <= MaxReadBatch} :
          ListBalances(user_id, refresh, upstream)

SpecReads == InitStore /\ [][NextReads]_vars

\* runs of the scheduled jobs
NextScheduler ==
    \E j \in Jobs :
        \/ StartRun(j)
        \/ FuncReturns(j)
        \/ \E exc \in Exceptions : FuncRaises(j, exc)
        \/ RecordFailure(j)
        \/ RecordSuccess(j)

SpecScheduler == InitStore /\ [][NextScheduler]_vars

\* one payload decoded and serialised again
InitDecode == InitRequestIdle /\ InitStoreIdle /\ InitBankIdle /\ InitJobs /\ InitAmount /\ InitThreads

NextDecode == ModelValidate \/ ModelDumpJson

SpecDecode == InitDecode /\ [][NextDecode]_vars

\* refreshes against a bank whose two answers stay the same; at least one
\* of the two is a failure or an empty list
InitRepeat ==
    /\ InitRequestIdle /\ InitStoreIdle /\ InitJobs /\ InitAmountIdle /\ InitThreads
    /\ upstreamTx \in TxUpstream
    /\ upstreamPos \in BalanceUpstream
    /\ upstreamTx.values = <<>> \/ upstreamPos.values = <<>>

NextRepeat ==
    \/ \E account_id \in AccountIds : RefreshTransactions(account_id, upstreamTx)
    \/ \E user_id \in UserIds : RefreshAccountBalances(user_id, upstreamPos)

SpecRepeat == InitRepeat /\ [][NextRepeat]_vars

\* refresh_transactions on the two threads: the job refreshes the account
\* it was scheduled for, a request any account
NextThreads ==
    \/ \E transactions \in ThreadBatches : ScopeEnter("job", "acc-1", transactions)
    \/ \E account_id \in AccountIds, transactions \in ThreadBatches :
          ScopeEnter("request", account_id, transactions)
    \/ \E th \in Threads :
          \/ ScopeBody(th)
          \/ ScopeBodyRaises(th)
          \/ ScopeCommit(th)
          \/ ScopeExcept(th)
          \/ ScopeFinally(th)

\* the cache as the program was started on it: empty, or holding the row
\* an earlier refresh of acc-1 has committed for a transaction R1
EarlierRecord == AccountTransaction(Str("R1"), None, None, None, Str("x"))
EarlierRow == [NewTransaction(EarlierRecord, "acc-1") EXCEPT !.id = 1]

InitThreadsStore ==
    /\ InitRequestIdle /\ InitBankIdle /\ InitJobs /\ InitAmountIdle /\ InitThreads
    /\ posRows = <<>>
    /\ clock = 0
    /\ lastCall = Call("none", "", "none", "none", 0, 0, 0)
    /\ lastPos = <<>>
    /\ \/ txRows = <<>> /\ lastTx = <<>>
       \/ txRows = <<EarlierRow>> /\ lastTx = (Str("R1") :> EarlierRecord)

SpecThreads == InitThreadsStore /\ [][NextThreads]_vars

(***************************************************************************)
(* Claims about _request                                                   *)
(***************************************************************************)
\* the call has ended: it returned, or an exception left it
Done == rpc \in {"returned", "raised", "propagated"}

\* the call ended after a response to its last request
EndedOnResponse == Done /\ Len(calls) >= 1 /\ Len(received) = Len(calls)

\* C1: with max_attempts = N >= 1, a call issues between 1 and N requests,
\* and a request follows attempt k if and only if attempt k's status is in
\* status_forcelist and k < N.
C1_RequestsFollowRetryableOnly ==
    (Done /\ cfg.max_attempts >= 1) =>
        /\ Len(calls) >= 1
        /\ Len(calls) <= cfg.max_attempts
        /\ \A k \in 1..Len(received) :
              (Len(calls) > k) <=>
                  (received[k].status_code \in cfg.status_forcelist /\ k < cfg.max_attempts)

\* C2: the call returns the final attempt's response if and only if its
\* status is in 200..399; otherwise it raises ComdirectAPIError with the
\* status code and the body of the final attempt.
C2_OutcomeIsFinalAttempt ==
    (EndedOnResponse /\ cfg.max_attempts >= 1) =>
        LET final == received[Len(received)].status_code IN
        IF final >= 200 /\ final <= 399
        THEN /\ rpc = "returned"
             /\ outcome = [kind |-> "return", response |-> last_response]
        ELSE /\ rpc = "raised"
             /\ outcome.kind = "ComdirectAPIError"
             /\ outcome.status_code = final
             /\ outcome.response = IF last_response.body.is_json
                                   THEN [json |-> last_response.body.text]
                                   ELSE [text |-> last_response.body.text]

\* C3: sleep is called only between two consecutive attempts: when the call
\* has ended, the number of sleeps is the number of requests minus one.
C3_SleepsBetweenAttempts ==
    (Done /\ cfg.max_attempts >= 1) => Len(sleeps) = Len(calls) - 1

\* what each Retry-After value of the model is as a number of milliseconds
RetryAfterNumber(v) ==
    CASE v = <<"1">> -> Num(1000)
      [] v = <<"2", ".", "5">> -> Num(2500)
      [] v = <<"-", "1">> -> Num(0 - 1000)
      [] v = <<"n", "a", "n">> -> NaN
      [] v = <<"i", "n", "f">> -> Inf
      [] OTHER -> FloatError

\* a 429 whose Retry-After header is present and parses as a number
ServerDirected(r) ==
    /\ r.status_code = 429
    /\ r.retry_after # None
    /\ RetryAfterNumber(r.retry_after.s) # FloatError

\* C4: the sleep after a 429 with a numeric Retry-After is exactly that
\* number of seconds, whatever the attempt and the backoff_factor; the
\* responses [429 with Retry-After 1, 200] give the sleeps [1.0] and the
\* 200 response is returned.
C4_RetryAfterIsTheDelay ==
    /\ \A k \in 1..Len(sleeps) :
          ServerDirected(received[k]) =>
              sleeps[k] = RetryAfterNumber(received[k].retry_after.s)
    /\ (/\ Done
        /\ cfg.max_attempts >= 2
        /\ Len(received) = 2
        /\ received[1] = [status_code |-> 429, retry_after |-> Str(<<"1">>)]
        /\ received[2].status_code = 200)
       => /\ sleeps = <<Num(1000)>>
          /\ rpc = "returned"
          /\ outcome.response = last_response

C4_Witness ==
    /\ rpc = "returned"
    /\ Len(received) = 2
    /\ received[1] = [status_code |-> 429, retry_after |-> Str(<<"1">>)]
    /\ received[2].status_code = 200
    /\ sleeps = <<Num(1000)>>
    /\ cfg.backoff_factor = 500

\* C5: the sleep after attempt k, for any response other than a 429 with a
\* numeric Retry-After, is backoff_factor * 2^(k-1); the responses
\* [500, 500, 500] with max_attempts 3 and backoff_factor 0.5 give the
\* sleeps [0.5, 1.0] and the call fails with status code 500.
C5_ExponentialBackoff ==
    /\ \A k \in 1..Len(sleeps) :
          ~ServerDirected(received[k]) =>
              sleeps[k] = Num(cfg.backoff_factor * (2 ^ (k - 1)))
    /\ (/\ Done
        /\ cfg.max_attempts = 3
        /\ cfg.backoff_factor = 500
        /\ Len(received) = 3
        /\ \A k \in 1..3 : received[k].status_code = 500)
       => /\ sleeps = <<Num(500), Num(1000)>>
          /\ rpc = "raised"
          /\ outcome.status_code = 500

C5_Witness ==
    /\ rpc = "raised"
    /\ cfg.max_attempts = 3
    /\ cfg.backoff_factor = 500
    /\ Len(received) = 3
    /\ received[1] = [status_code |-> 429, retry_after |-> Str(<<"s", "o", "o", "n">>)]
    /\ received[2].status_code = 500
    /\ received[3].status_code = 500
    /\ sleeps = <<Num(500), Num(1000)>>
    /\ outcome.status_code = 500

\* C6: on every attempt the transmitted query parameters are exactly the
\* caller's entries whose value is not None, keys and values unchanged;
\* params that are None or empty give an empty mapping.
C6_ParamsWithoutNone ==
    \A i \in 1..Len(calls) :
        IF params.is_none
        THEN DOMAIN calls[i] = {}
        ELSE /\ DOMAIN calls[i] = {k \in DOMAIN params.map : params.map[k] # None}
             /\ \A k \in DOMAIN calls[i] : calls[i][k] = params.map[k]

C6_Witness ==
    /\ Len(calls) = 2
    /\ ~params.is_none
    /\ DOMAIN params.map = {"a", "b"}
    /\ params.map["a"] = None
    /\ params.map["b"] = Str("")
    /\ DOMAIN calls[2] = {"b"}
    /\ calls[2]["b"] = Str("")

(***************************************************************************)
(* Claims about the cache                                                  *)
(***************************************************************************)
RowsWithExternalId(e) == {i \in 1..Len(txRows) : txRows[i].external_id = e}
RowsOfAccount(a) == {i \in 1..Len(posRows) : posRows[i].account_id = a}

\* C7: after any sequence of committed upsert_transactions calls carrying
\* records with one external_id, the last of them R, the table holds exactly
\* one row with that external_id, and its raw, amount, currency and
\* booking_date are those derived from R.
C7_OneRowHoldingLastRecord ==
    \A e \in DOMAIN lastTx :
        /\ Cardinality(RowsWithExternalId(e)) = 1
        /\ \A i \in RowsWithExternalId(e) :
              /\ txRows[i].raw = ModelDumpTransaction(lastTx[e])
              /\ txRows[i].amount = AmountOf(lastTx[e])
              /\ txRows[i].currency = CurrencyOf(lastTx[e])
              /\ txRows[i].booking_date = ParseDate(lastTx[e].bookingDate)

\* a row inserted by one call and overwritten by a later one
C7_Witness ==
    \E i \in 1..Len(txRows) :
        /\ txRows[i].external_id = Str("R1")
        /\ txRows[i].created_at = 1
        /\ txRows[i].updated_at = 3
        /\ txRows[i].currency = Str("EUR")
        /\ txRows[i].raw.remittanceInfo = Str("y")
        /\ lastTx[Str("R1")].remittanceInfo = Str("y")

\* C8: in every committed state, after succeeding and failing calls alike,
\* no two rows of table transactions have the same external_id (a row whose
\* external_id is NULL has none).
C8_ExternalIdsUnique ==
    \A i, j \in 1..Len(txRows) :
        (i # j /\ txRows[i].external_id # None)
            => txRows[i].external_id # txRows[j].external_id

\* rows of several ids are there and the last call failed in the storage layer
C8_Witness ==
    /\ lastCall.result = "storage_error"
    /\ Len(txRows) >= 2
    /\ \E i \in 1..Len(txRows) : txRows[i].external_id = Str("")
    /\ \E i \in 1..Len(txRows) : txRows[i].external_id = Str("E1")

\* C9: a transaction with neither a reference nor an endToEndReference is
\* never inserted: no row is stored for it and list_cached_transactions
\* does not return it.
C9_NoIdNeverStored ==
    /\ \A i \in 1..Len(txRows) : txRows[i].external_id # None
    /\ \A a \in AccountIds :
          \A n \in 1..Len(ListCachedTransactions(a)) :
              LET raw == ListCachedTransactions(a)[n]
              IN raw.reference # None \/ raw.endToEndReference # None

\* C10: table positions holds exactly one row for each account id that was
\* ever upserted, and the row's balance_amount, currency and raw are those
\* of the most recent balance upserted for the account.
C10_OneRowPerAccount ==
    \A a \in DOMAIN lastPos :
        /\ Cardinality(RowsOfAccount(a)) = 1
        /\ \A i \in RowsOfAccount(a) :
              /\ posRows[i].balance_amount = ExtractAmount(lastPos[a])
              /\ posRows[i].currency = ExtractCurrency(lastPos[a])
              /\ posRows[i].raw = ModelDumpBalance(lastPos[a])

\* C11: when a storage error ends an upsert call made inside session_scope,
\* whether at flush or at commit and whatever the flush had already
\* written, the committed tables are those of before the call and the error
\* is raised to the caller.
C11_StorageErrorPersistsNothing ==
    [][lastCall'.result = "storage_error"
          => /\ txRows' = txRows
             /\ posRows' = posRows
             /\ lastCall'.raised = "SQLAlchemyError"]_vars

\* a flush that had written a row when a later statement of it failed
C11_Witness ==
    /\ lastCall.kind = "refresh_transactions"
    /\ lastCall.result = "storage_error"
    /\ lastCall.lost >= 1
    /\ Len(txRows) >= 1

\* the last call was a read route without refresh=true that found its cache empty
ReadMissed ==
    /\ lastCall.kind \in {"list_transactions", "list_balances"}
    /\ ~lastCall.refresh
    /\ lastCall.miss

\* every record a read returned has its row in the cache
DataPersisted ==
    \A n \in 1..Len(lastCall.data) :
        IF lastCall.kind = "list_balances"
        THEN Truthy(lastCall.data[n].account_id)
                => \E i \in 1..Len(posRows) : posRows[i].account_id = lastCall.data[n].account_id
        ELSE \E i \in 1..Len(txRows) :
                /\ txRows[i].raw.reference = lastCall.data[n].reference
                /\ txRows[i].raw.remittanceInfo = lastCall.data[n].remittance_info

\* C12: a read without refresh=true on an empty cache, the bank answering,
\* makes exactly one upstream call, persists the records it got and
\* reports refreshed=True.
C12_MissRefreshesOnceAndPersists ==
    (ReadMissed /\ lastCall.result # "upstream_error") =>
        /\ lastCall.upstream_calls = 1
        /\ lastCall.result = "returned"
        /\ lastCall.refreshed
        /\ DataPersisted

\* C13: after a read on an empty cache has refreshed and returned at least
\* one record, the next read of the same scope without refresh=true makes
\* no upstream call, reports refreshed=False and returns cached records.
C13_SecondReadFromCache ==
    [][(/\ ReadMissed
        /\ lastCall.result = "returned"
        /\ Len(lastCall.data) >= 1
        /\ lastCall'.kind = lastCall.kind
        /\ lastCall'.account_id = lastCall.account_id
        /\ ~lastCall'.refresh
        /\ clock' = clock + 1)
          => /\ lastCall'.upstream_calls = 0
             /\ lastCall'.result = "returned"
             /\ ~lastCall'.refreshed
             /\ Len(lastCall'.data) >= 1]_vars

\* a row of either table without its id and its timestamps
Cached(row) == [f \in DOMAIN row \ {"id", "created_at", "updated_at"} |-> row[f]]
CachedRows(rows) == [i \in 1..Len(rows) |-> Cached(rows[i])]

\* C14: a refresh that follows a refresh of the same scope with the same
\* upstream response leaves the cached rows as the first one left them:
\* as many rows, with the same keys and payloads, timestamps excepted.
C14_RefreshIdempotent ==
    [][(/\ lastCall.kind \in {"refresh_transactions", "refresh_account_balances"}
        /\ lastCall'.kind = lastCall.kind
        /\ lastCall'.account_id = lastCall.account_id
        /\ clock' = clock + 1)
          => /\ CachedRows(txRows') = CachedRows(txRows)
             /\ CachedRows(posRows') = CachedRows(posRows)]_vars

(***************************************************************************)
(* Claims about the scheduler                                              *)
(***************************************************************************)
\* the rows a run of job j has created: its own, found by log_id
RowsOfRun(j) == {i \in 1..Len(syncLogs) : syncLogs[i].id = jobLogId[j]}

Terminal(row) == row.status \in {"succeeded", "failed"} /\ row.finished_at # None

\* one row per run started; while the job function has not ended the row
\* of the run is committed as running without finished_at; once the run
\* has ended its row is terminal
OneRowPerRun ==
    /\ Len(syncLogs) = jobRuns["account-balance-refresh-user-1"]
                          + jobRuns["transaction-refresh-acc-1"]
    /\ \A i, k \in 1..Len(syncLogs) : i # k => syncLogs[i].id # syncLogs[k].id
    /\ \A j \in Jobs :
          /\ jobRuns[j] >= 1 => Cardinality(RowsOfRun(j)) = 1
          /\ \A i \in RowsOfRun(j) :
                /\ syncLogs[i].job_name = j
                /\ jobPc[j] \in {"func", "except", "else"}
                      => syncLogs[i].status = "running" /\ syncLogs[i].finished_at = None
                /\ jobPc[j] = "idle" => Terminal(syncLogs[i])
    /\ \A i \in 1..Len(syncLogs) :
          ~Terminal(syncLogs[i])
             => \E j \in Jobs : jobPc[j] # "idle" /\ i \in RowsOfRun(j)

\* a row is never removed, and a step that changes a row changes a running
\* row of a run whose job function has ended into a terminal one
ChangedOnceAtEnd ==
    /\ Len(syncLogs') >= Len(syncLogs)
    /\ \A i \in 1..Len(syncLogs) :
          syncLogs'[i] # syncLogs[i]
             => /\ syncLogs[i].status = "running"
                /\ syncLogs[i].finished_at = None
                /\ Terminal(syncLogs'[i])
                /\ \E j \in Jobs : i \in RowsOfRun(j) /\ jobPc[j] \in {"except", "else"}
                /\ [syncLogs'[i] EXCEPT !.status = "running", !.detail = None,
                                        !.finished_at = None] = syncLogs[i]

RoundTripped == dumped # NotYet

\* C17, as stated: the round trip returns the value string and the unit it
\* was given, for every decimal string and every unit.
C17_RoundTripExact ==
    RoundTripped => dumped = payload

\* a value string in plain notation: an optional minus, an integer part
\* that is 0 or does not begin with 0, and optionally a point followed by at
\* least one digit; a number below one in a millionth is not written so
Plain(v) ==
    LET body == IF Len(v) > 0 /\ v[1] = "-" THEN Tail(v) ELSE v
        dots == DotAt(body)
        ip == IF dots = {} THEN body ELSE SubSeq(body, 1, (CHOOSE i \in dots : TRUE) - 1)
        fp == IF dots = {} THEN <<>> ELSE SubSeq(body, Len(ip) + 2, Len(body))
        nonzero == {i \in 1..Len(fp) : fp[i] # "0"}
    IN /\ Cardinality(dots) <= 1
       /\ Len(ip) > 0 /\ AllDigits(ip) /\ AllDigits(fp)
       /\ dots # {} => Len(fp) > 0
       /\ ip = <<"0">> \/ ip[1] # "0"
       /\ ip = <<"0">> => IF nonzero = {} THEN Len(fp) <= 6
                          ELSE \E i \in nonzero : i <= 6

\* C17: the round trip returns the unit it was given and a value string
\* that reads as the Decimal that was decoded, digit for digit; the string
\* is the one it was given whenever that is in plain notation, and
\* {"value": "123.45", "unit": "EUR"} comes back as it is.
C17_RoundTripCanonical ==
    RoundTripped =>
        /\ dumped.unit = payload.unit
        /\ payload.value = None => dumped.value = None
        /\ payload.value # None =>
              /\ ParseDecimal(dumped.value.s) = decoded.value
              /\ Plain(payload.value.s) => dumped.value = payload.value
        /\ payload = [value |-> Str(<<"1", "2", "3", ".", "4", "5">>), unit |-> Str("EUR")]
              => dumped = payload

C17_Witness ==
    /\ RoundTripped
    /\ payload = [value |-> Str(<<"1", "2", "3", ".", "4", "5">>), unit |-> Str("EUR")]
    /\ decoded.value = [tag |-> "Decimal", sign |-> <<>>,
                        coeff |-> <<"1", "2", "3", "4", "5">>, exp |-> 0 - 2]
    /\ dumped = payload

(***************************************************************************)
(* Claims about the services                                               *)
(***************************************************************************)
\* the step is a call of a refresh service whose upstream call fails
UpstreamFails ==
    /\ clock' = clock + 1
    /\ \/ lastCall'.kind = "refresh_transactions" /\ upstreamTx.error
       \/ lastCall'.kind = "refresh_account_balances" /\ upstreamPos.error

\* C18: when the upstream call of refresh_transactions or of
\* refresh_account_balances fails, with ComdirectAPIError or with a decode
\* failure, the service has made that one upstream call and no other, has
\* opened no session, leaves every cached row as it was and raises the
\* same error.
C18_UpstreamFailurePropagates ==
    [][UpstreamFails
          => /\ lastCall'.result = "upstream_error"
             /\ lastCall'.raised = (IF lastCall'.kind = "refresh_transactions"
                                    THEN upstreamTx.exc ELSE upstreamPos.exc)
             /\ lastCall'.upstream_calls = 1
             /\ lastCall'.sessions = 0
             /\ txRows' = txRows
             /\ posRows' = posRows]_vars

\* a failing balance refresh while transactions are cached
C18_Witness ==
    /\ lastCall.kind = "refresh_account_balances"
    /\ upstreamPos.exc = "ValueError"
    /\ lastCall.raised = "ValueError"
    /\ Len(txRows) >= 1
    /\ clock = MaxCalls

\* C19: when the first call on an empty table carries two records with the
\* same external_id, the call commits and the table holds exactly one row
\* for that id, with the data of the second record.
C19_DuplicateInBatchMerged ==
    (/\ clock = 1
     /\ lastCall.kind = "refresh_transactions"
     /\ Len(upstreamTx.values) = 2
     /\ Truthy(ExternalId(upstreamTx.values[1]))
     /\ ExternalId(upstreamTx.values[1]) = ExternalId(upstreamTx.values[2]))
       => /\ lastCall.result = "committed"
          /\ Cardinality(RowsWithExternalId(ExternalId(upstreamTx.values[2]))) = 1
          /\ \A i \in RowsWithExternalId(ExternalId(upstreamTx.values[2])) :
                txRows[i].raw = ModelDumpTransaction(upstreamTx.values[2])

\* the key the claim gives a balance: its accountId when present, otherwise
\* the accountId of its nested account, None when neither is present
ClaimedKey(b) ==
    IF Truthy(b.accountId) THEN b.accountId
    ELSE IF b.account # None /\ Truthy(b.account.accountId) THEN b.account.accountId
    ELSE None

\* C20: after a committed upsert_balances every balance of the batch that
\* has an accountId or a nested account with one is stored under that key;
\* only a balance with neither is skipped.
C20_KeyedByEitherIdentifier ==
    (/\ clock = 1
     /\ lastCall.kind = "refresh_account_balances"
     /\ lastCall.result = "committed")
       => \A n \in 1..Len(upstreamPos.values) :
             LET key == ClaimedKey(upstreamPos.values[n])
             IN key # None => RowsOfAccount(key) # {}

\* the balances of a batch are stored under pairwise different keys
DistinctKeys(batch) ==
    \A n, m \in 1..Len(batch) :
        (n # m /\ Truthy(BalanceAccountId(batch[n])))
            => BalanceAccountId(batch[n]) # BalanceAccountId(batch[m])

\* C21: after refresh_account_balances has upserted a batch into the empty
\* table, the payload of every balance of the batch that has a key was
\* storable as JSON, the call has committed, and list_cached_balances
\* returns a record equal to that balance, decimal amounts included.
C21_BalancePayloadRoundTrips ==
    (/\ clock = 1
     /\ lastCall.kind = "refresh_account_balances"
     /\ lastCall.result # "upstream_error"
     /\ DistinctKeys(upstreamPos.values))
       => \A n \in 1..Len(upstreamPos.values) :
             LET b == upstreamPos.values[n] IN
             Truthy(BalanceAccountId(b)) =>
                 /\ JsonSerializableBalance(ModelDumpBalance(b))
                 /\ lastCall.result = "committed"
                 /\ \E m \in 1..Len(ListCachedBalances) : ListCachedBalances[m] = b

\* the records of a batch carry pairwise different, non-empty external ids
DistinctExternalIds(batch) ==
    \A n, m \in 1..Len(batch) :
        /\ Truthy(ExternalId(batch[n]))
        /\ n # m => ExternalId(batch[n]) # ExternalId(batch[m])

\* every balance of a batch has a key of its own
DistinctClaimedKeys(batch) ==
    \A n, m \in 1..Len(batch) :
        /\ ClaimedKey(batch[n]) # None
        /\ n # m => ClaimedKey(batch[n]) # ClaimedKey(batch[m])

\* C23: when the first call on the empty table carries a record whose amount
\* is missing, the records of the batch having keys of their own, the call
\* commits, that record is stored with amount None and every other record
\* of the batch is stored too.
C23_MissingAmountStored ==
    /\ (/\ clock = 1
        /\ lastCall.kind = "refresh_transactions"
        /\ lastCall.result # "upstream_error"
        /\ DistinctExternalIds(upstreamTx.values)
        /\ \E n \in 1..Len(upstreamTx.values) : AmountOf(upstreamTx.values[n]) = None)
       => /\ lastCall.result = "committed"
          /\ \A n \in 1..Len(upstreamTx.values) :
                \E i \in 1..Len(txRows) :
                    /\ txRows[i].external_id = ExternalId(upstreamTx.values[n])
                    /\ txRows[i].raw = ModelDumpTransaction(upstreamTx.values[n])
                    /\ txRows[i].amount = AmountOf(upstreamTx.values[n])
    /\ (/\ clock = 1
        /\ lastCall.kind = "refresh_account_balances"
        /\ lastCall.result # "upstream_error"
        /\ DistinctClaimedKeys(upstreamPos.values)
        /\ \E n \in 1..Len(upstreamPos.values) : ExtractAmount(upstreamPos.values[n]) = None)
       => /\ lastCall.result = "committed"
          /\ \A n \in 1..Len(upstreamPos.values) :
                \E i \in 1..Len(posRows) :
                    /\ posRows[i].account_id = ClaimedKey(upstreamPos.values[n])
                    /\ posRows[i].raw = ModelDumpBalance(upstreamPos.values[n])
                    /\ posRows[i].balance_amount = ExtractAmount(upstreamPos.values[n])

\* C27: when the only call so far was a read of balances for user-1, so
\* that every cached position was fetched for user-1, a read for user-2
\* without refresh=true finds no balance of its own: it makes its
\* cache-fill call to the bank and returns nothing from the cache.
C27_OnlyOwnBalances ==
    [][(/\ clock = 1
        /\ lastCall.kind = "list_balances"
        /\ lastCall.account_id = "user-1"
        /\ clock' = 2
        /\ lastCall'.kind = "list_balances"
        /\ lastCall'.account_id = "user-2"
        /\ ~lastCall'.refresh)
          => /\ lastCall'.miss
             /\ lastCall'.upstream_calls = 1]_vars

(***************************************************************************)
(* Claims about concurrent refreshes and session_scope                     *)
(***************************************************************************)
\* the step is the session.commit() of thread th
Commits(th) == thPc[th] = "commit" /\ thPc'[th] # "commit"

C24_ScopeClosesOnceCommitsOrRollsBack ==
    \A th \in Threads :
        LET scope == thScope[th] IN
        /\ scope.closes = IF ThreadEnded(th) THEN 1 ELSE 0
        /\ scope.commits \in {0, 1} /\ scope.rollbacks \in {0, 1}
        /\ ~(scope.committed /\ scope.rollbacks > 0)
        /\ ThreadEnded(th) =>
              /\ scope.commits = 1 <=> scope.body = "finished"
              /\ scope.rollbacks = 1 <=> (scope.body = "raised" \/ ~scope.committed)
              /\ scope.rollbacks = 1 <=> thPc[th] = "raised"
              /\ thPc[th] = "raised" <=> scope.raised # "none"
              /\ thPc[th] = "returned" <=> scope.committed

\* one scope was left by the exception of its commit, the other by the
\* exception of its body
C24_Witness ==
    /\ thPc["job"] = "raised"
    /\ thScope["job"] = [body |-> "finished", commits |-> 1, committed |-> FALSE,
                         rollbacks |-> 1, closes |-> 1, raised |-> "SQLAlchemyError"]
    /\ thPc["request"] = "raised"
    /\ thScope["request"] = [body |-> "raised", commits |-> 0, committed |-> FALSE,
                             rollbacks |-> 1, closes |-> 1, raised |-> "OperationalError"]

\* the external ids that the calls of both threads carry
CarriedByBoth ==
    CarriedIds(thArgs["job"].transactions) \cap CarriedIds(thArgs["request"].transactions)

\* both calls have ended and the body of neither was cut short
BothEnded == \A th \in Threads : ThreadEnded(th) /\ thScope[th].body = "finished"

\* C25: when two calls that carry the same external_id have run, one after
\* the other or interleaved in any way, the table holds exactly one row for
\* that id, and the payload of the row is that of the record carried by the
\* call that committed last.
C25_LastCommitterWins ==
    BothEnded =>
        \A e \in CarriedByBoth :
            /\ Cardinality(RowsWithExternalId(e)) = 1
            /\ \A i \in RowsWithExternalId(e) :
                  e \in DOMAIN lastTx => txRows[i].raw = ModelDumpTransaction(lastTx[e])

\* every payload of a batch can be stored
Storable(batch) ==
    \A n \in 1..Len(batch) : JsonSerializableTransaction(ModelDumpTransaction(batch[n]))

\* C26: when two refreshes of one account have run, one after the other or
\* interleaved in any way, each with records that have ids of their own and
\* payloads that can be stored, both have returned and every record of
\* either batch has its row.
C26_ConcurrentRefreshesBothReturn ==
    (/\ BothEnded
     /\ thArgs["job"].account_id = thArgs["request"].account_id
     /\ \A th \in Threads : /\ DistinctExternalIds(thArgs[th].transactions)
                            /\ Storable(thArgs[th].transactions))
       => \A th \in Threads :
             /\ thPc[th] = "returned"
             /\ \A n \in 1..Len(thArgs[th].transactions) :
                   RowsWithExternalId(ExternalId(thArgs[th].transactions[n])) # {}

(***************************************************************************)
(* Further claims about _request                                           *)
(***************************************************************************)
\* C28: whenever a call reaches line 101, whatever its RetryConfig, a
\* request has been issued and last_response is not None.
C28_AssertionHolds ==
    rpc = "evaluate" => (last_response # NoResponse /\ Len(calls) >= 1)

\* C29: every delay passed to time.sleep is a finite number that is not
\* negative.
C29_DelaysFiniteNonNegative ==
    \A k \in 1..Len(sleeps) : sleeps[k].kind = "num" /\ sleeps[k].ms >= 0

\* the exception of session.request has left the call
TransportFailed == outcome.kind = "TransportError"

\* C30: once session.request has raised, the call has ended by that
\* exception and nothing follows: the raising request is the last one, every
\* sleep lies before it, one after each earlier response, no error is built
\* from an earlier response, and the call takes no further step.
C30_TransportErrorPropagates ==
    /\ [](TransportFailed =>
             /\ rpc = "propagated"
             /\ outcome = [kind |-> "TransportError"]
             /\ Len(calls) = Len(received) + 1
             /\ Len(sleeps) = Len(received))
    /\ [][~TransportFailed]_vars

\* the third request raised after two retryable responses
C30_Witness ==
    /\ TransportFailed
    /\ rpc = "propagated"
    /\ Len(calls) = 3
    /\ Len(received) = 2
    /\ Len(sleeps) = 2
    /\ last_response.status_code = 500
    /\ cfg.max_attempts = 3

====
